---- MODULE Spec2Model ----
(***************************************************************************)
(* Model of dashboard/ridesharing_dashboard.py: one Streamlit script run   *)
(* (load -> sidebar -> filter -> KPIs -> tabs -> insights), re-executed    *)
(* from the top on every widget change.                                    *)
(*                                                                         *)
(* A DataFrame is a record [kind, columns, rows]; rows is the sequence of  *)
(* row records in index order.  A float is a pair <<num, den>>, NaN being  *)
(* <<0, 0>>; currency amounts are whole numbers over 1.  A calendar date   *)
(* is its day ordinal counted from 2024-01-01 (a Monday).                  *)
(***************************************************************************)
EXTENDS Integers, Sequences, FiniteSets, TLC

\* ---------------------------------------------------------------- bounds
MaxTrips == 3        \* rows of trips.csv in Spec and SpecFilter
FreeFares == 5       \* drivers of SpecTop whose fare is drawn freely

\* ------------------------------------------------------------- constants
TopN == 15           \* nlargest(15, 'total_earnings')
HoursPerDay == 24

\* --------------------------------------------------------------- values
NaN == <<0, 0>>
F(n) == <<n, 1>>
IsNaN(x) == x = NaN

Unset == [kind |-> "unset", columns |-> {}, rows |-> <<>>]
None == [kind |-> "None", columns |-> {}, rows |-> <<>>]
DataFrame(cols, rws) == [kind |-> "frame", columns |-> cols, rows |-> rws]
IsNone(x) == x.kind = "None"
NoValue == <<>>      \* a scalar name not yet bound in the script run

Range(s) == {s[i] : i \in DOMAIN s}

RECURSIVE Filter(_, _)
\* df[mask]: the rows whose index is in keep, in their order
Filter(rws, keep) ==
    IF rws = <<>> THEN <<>>
    ELSE LET n == Len(rws)
             init == Filter(SubSeq(rws, 1, n - 1), keep)
         IN IF n \in keep THEN Append(init, rws[n]) ELSE init

RECURSIVE SumInts(_, _)
SumInts(f, S) ==
    IF S = {} THEN 0
    ELSE LET x == CHOOSE y \in S : TRUE IN f[x] + SumInts(f, S \ {x})

\* Series.sum() of a float column: NaN entries are skipped
SumSkipNaN(rws, col) ==
    SumInts([i \in DOMAIN rws |-> IF IsNaN(rws[i][col]) THEN 0 ELSE rws[i][col][1]],
            DOMAIN rws)

\* Series.mean(): NaN entries are skipped, the mean of nothing is NaN
MeanSkipNaN(rws, col) ==
    LET ok == {i \in DOMAIN rws : ~IsNaN(rws[i][col])}
    IN <<SumInts([i \in ok |-> rws[i][col][1]], ok), Cardinality(ok)>>

RECURSIVE SortAsc(_)
\* the sorted group keys of a groupby over an integer column
SortAsc(S) ==
    IF S = {} THEN <<>>
    ELSE LET m == CHOOSE x \in S : \A y \in S : x <= y
         IN <<m>> \o SortAsc(S \ {m})

Min(S) == CHOOSE x \in S : \A y \in S : x <= y
Max(S) == CHOOSE x \in S : \A y \in S : x >= y

\* ------------------------------------------------------------- calendar
day_order == <<"Monday", "Tuesday", "Wednesday", "Thursday", "Friday",
               "Saturday", "Sunday">>
MonthLength == <<31, 29, 31, 30, 31, 30, 31, 31, 30, 31, 30, 31>>

RECURSIVE DaysBefore(_)
DaysBefore(m) == IF m = 1 THEN 0 ELSE DaysBefore(m - 1) + MonthLength[m - 1]

\* a timestamp text of the CSV is <<month, day of month, hour>> of 2024
Parseable(txt) ==
    /\ Len(txt) = 3
    /\ txt[1] \in 1..12
    /\ txt[2] \in 1..MonthLength[txt[1]]
    /\ txt[3] \in 0..(HoursPerDay - 1)

\* pd.to_datetime of one text: hours since 2024-01-01 00:00
to_datetime(txt) == (DaysBefore(txt[1]) + txt[2] - 1) * HoursPerDay + txt[3]

dt_date(ts) == ts \div HoursPerDay
dt_hour(ts) == ts % HoursPerDay
dt_day_name(ts) == day_order[(dt_date(ts) % Len(day_order)) + 1]
dt_month(ts) ==
    CHOOSE m \in 1..12 :
        /\ DaysBefore(m) <= dt_date(ts)
        /\ dt_date(ts) < DaysBefore(m) + MonthLength[m]
\* .dt.to_period('M').astype(str), "2024-01" as <<2024, 1>>
dt_month_year(ts) == <<2024, dt_month(ts)>>

Date(m, d) == DaysBefore(m) + d - 1

\* ------------------------------------------------------------ csv files
NA == "NaN"          \* an empty text cell

DriversCsv ==
    << [driver_id |-> 1, vehicle_type |-> "Sedan", status |-> "Active"],
       [driver_id |-> 2, vehicle_type |-> "SUV", status |-> "Active"],
       [driver_id |-> 3, vehicle_type |-> "Sedan", status |-> "Inactive"] >>

TripPool ==
    << [trip_id |-> 1, driver_id |-> 1, pickup_borough |-> "Manhattan",
        dropoff_borough |-> "Brooklyn", trip_datetime |-> <<1, 5, 8>>,
        trip_status |-> "completed", fare_amount |-> F(20)],
       [trip_id |-> 2, driver_id |-> 2, pickup_borough |-> "Manhattan",
        dropoff_borough |-> "Queens", trip_datetime |-> <<1, 6, 18>>,
        trip_status |-> "cancelled", fare_amount |-> NaN],
       [trip_id |-> 3, driver_id |-> 1, pickup_borough |-> "Bronx",
        dropoff_borough |-> "Brooklyn", trip_datetime |-> <<2, 1, 9>>,
        trip_status |-> "completed", fare_amount |-> F(30)],
       [trip_id |-> 4, driver_id |-> 9, pickup_borough |-> "Manhattan",
        dropoff_borough |-> "Brooklyn", trip_datetime |-> <<1, 6, 7>>,
        trip_status |-> "completed", fare_amount |-> F(20)],
       [trip_id |-> 5, driver_id |-> 2, pickup_borough |-> NA,
        dropoff_borough |-> "Brooklyn", trip_datetime |-> <<1, 5, 12>>,
        trip_status |-> "completed", fare_amount |-> F(30)],
       [trip_id |-> 6, driver_id |-> 2, pickup_borough |-> "Manhattan",
        dropoff_borough |-> NA, trip_datetime |-> <<1, 31, 23>>,
        trip_status |-> "completed", fare_amount |-> F(20)],
       [trip_id |-> 7, driver_id |-> 2, pickup_borough |-> "Manhattan",
        dropoff_borough |-> "Brooklyn", trip_datetime |-> <<1, 31, 23>>,
        trip_status |-> "completed", fare_amount |-> F(20)] >>

PaymentsCsv ==
    << [payment_id |-> 1, trip_id |-> 1, payment_timestamp |-> <<1, 5, 9>>,
        payment_method |-> "card", payment_status |-> "successful",
        amount_charged |-> F(20)],
       [payment_id |-> 2, trip_id |-> 3, payment_timestamp |-> <<2, 1, 10>>,
        payment_method |-> "cash", payment_status |-> "failed",
        amount_charged |-> F(30)],
       [payment_id |-> 3, trip_id |-> 4, payment_timestamp |-> <<1, 6, 8>>,
        payment_method |-> "card", payment_status |-> "successful",
        amount_charged |-> F(20)],
       [payment_id |-> 4, trip_id |-> 99, payment_timestamp |-> <<1, 7, 8>>,
        payment_method |-> "cash", payment_status |-> "successful",
        amount_charged |-> F(10)],
       [payment_id |-> 5, trip_id |-> 7, payment_timestamp |-> <<2, 1, 0>>,
        payment_method |-> "cash", payment_status |-> "successful",
        amount_charged |-> F(20)] >>

DriverColumns == {"driver_id", "vehicle_type", "status"}
TripCsvColumns == {"trip_id", "driver_id", "pickup_borough", "dropoff_borough",
                   "trip_datetime", "trip_status", "fare_amount"}
PaymentColumns == {"payment_id", "trip_id", "payment_timestamp",
                   "payment_method", "payment_status", "amount_charged"}

\* a file of the data directory: absent, or its rows
File(rws) == [exists |-> TRUE, rows |-> rws]
Missing == [exists |-> FALSE, rows |-> <<>>]

\* ---------------------------------------------------------------- state
VARIABLES
    files,          \* data/drivers.csv, data/trips.csv, data/payments.csv
    cache,          \* st.cache_data entry of load_data: <<>> or <<result>>
    widgets,        \* sidebar widget state: <<>> (defaults) or <<selection>>
    st_error,       \* the st.error message of the run, "" if none
    exception,      \* the uncaught exception that ended the run, "" if none
    pc,             \* the statement the script run is at
    drivers, trips, payments,
    selected_pickup, selected_dropoff, selected_vehicle_types, date_range,
    filtered_trips, filtered_trips_with_drivers, filtered_drivers, filtered_payments,
    total_trips, completion_rate, avg_fare, total_revenue, active_drivers,
    borough_completion, driver_metrics, top_earners, payment_revenue,
    monthly_revenue, vehicle_revenue, hourly_demand, daily_demand,
    completion_rate_val, payment_success_rate

loaded == <<drivers, trips, payments>>
selection == <<selected_pickup, selected_dropoff, selected_vehicle_types, date_range>>
filtered == <<filtered_trips, filtered_trips_with_drivers, filtered_drivers,
              filtered_payments>>
kpis == <<total_trips, completion_rate, avg_fare, total_revenue, active_drivers>>
tabs == <<borough_completion, driver_metrics, top_earners, payment_revenue,
          monthly_revenue, vehicle_revenue, hourly_demand, daily_demand>>
insights == <<completion_rate_val, payment_success_rate>>
session == <<files, cache, widgets>>
vars == <<session, st_error, exception, pc, loaded, selection, filtered, kpis,
          tabs, insights>>

\* ----------------------------------------------------------------- loader
TripColumns == TripCsvColumns \cup {"hour", "day_of_week", "month"}

ParseColumn(rws, col) ==
    [i \in DOMAIN rws |-> [rws[i] EXCEPT ![col] = to_datetime(rws[i][col])]]

\* df[col] = vals: every row gets the field col
AddColumn(rws, col, vals) ==
    [i \in DOMAIN rws |->
        [k \in DOMAIN rws[i] \cup {col} |-> IF k = col THEN vals[i] ELSE rws[i][k]]]

AllParseable(rws, col) == \A i \in DOMAIN rws : Parseable(rws[i][col])

\* lines 57-60
Preprocess(rws) ==
    LET parsed == ParseColumn(rws, "trip_datetime")
        hours == AddColumn(parsed, "hour",
                           [i \in DOMAIN parsed |-> dt_hour(parsed[i].trip_datetime)])
        days == AddColumn(hours, "day_of_week",
                          [i \in DOMAIN parsed |-> dt_day_name(parsed[i].trip_datetime)])
    IN AddColumn(days, "month",
                 [i \in DOMAIN parsed |-> dt_month(parsed[i].trip_datetime)])

Result(d, t, p, msg) == [value |-> <<d, t, p>>, error |-> msg]

\* a load that hands back the frames read before the failure
load_data_partial(f) ==
    IF ~f.drivers.exists
    THEN Result(None, None, None, "Data files not found")
    ELSE IF ~f.trips.exists
    THEN Result(DataFrame(DriverColumns, f.drivers.rows), None, None,
                "Data files not found")
    ELSE IF ~f.payments.exists
    THEN Result(DataFrame(DriverColumns, f.drivers.rows),
                DataFrame(TripCsvColumns, f.trips.rows), None, "Data files not found")
    ELSE IF ~AllParseable(f.trips.rows, "trip_datetime")
    THEN Result(DataFrame(DriverColumns, f.drivers.rows), None, None,
                "Error loading data")
    ELSE IF ~AllParseable(f.payments.rows, "payment_timestamp")
    THEN Result(DataFrame(DriverColumns, f.drivers.rows),
                DataFrame(TripColumns, Preprocess(f.trips.rows)), None,
                "Error loading data")
    ELSE Result(DataFrame(DriverColumns, f.drivers.rows),
                DataFrame(TripColumns, Preprocess(f.trips.rows)),
                DataFrame(PaymentColumns,
                          ParseColumn(f.payments.rows, "payment_timestamp")), "")

\* load_data(): the three reads and the preprocessing inside one try block
load_data(f) ==
    IF ~f.drivers.exists \/ ~f.trips.exists \/ ~f.payments.exists
    THEN Result(None, None, None, "Data files not found")
    ELSE IF \/ ~AllParseable(f.trips.rows, "trip_datetime")
            \/ ~AllParseable(f.payments.rows, "payment_timestamp")
    THEN Result(None, None, None, "Error loading data")
    ELSE Result(DataFrame(DriverColumns, f.drivers.rows),
                DataFrame(TripColumns, Preprocess(f.trips.rows)),
                DataFrame(PaymentColumns,
                          ParseColumn(f.payments.rows, "payment_timestamp")), "")

\* --------------------------------------------------------- filter engine
isin(x, values) == x \in values

\* the range compared with the timestamp instead of its date
not_a_date_filter(t, pickup, dropoff, dr) ==
    DataFrame(t.columns,
        Filter(t.rows, {i \in DOMAIN t.rows :
            /\ isin(t.rows[i].pickup_borough, pickup)
            /\ isin(t.rows[i].dropoff_borough, dropoff)
            /\ t.rows[i].trip_datetime >= dr[1] * HoursPerDay
            /\ t.rows[i].trip_datetime <= dr[2] * HoursPerDay}))

\* trips[pickup.isin & dropoff.isin & date >= start & date <= end]
filterTrips(t, pickup, dropoff, dr) ==
    DataFrame(t.columns,
        Filter(t.rows, {i \in DOMAIN t.rows :
            /\ isin(t.rows[i].pickup_borough, pickup)
            /\ isin(t.rows[i].dropoff_borough, dropoff)
            /\ dt_date(t.rows[i].trip_datetime) >= dr[1]
            /\ dt_date(t.rows[i].trip_datetime) <= dr[2]}))

RECURSIVE merge_left(_, _)
\* left.merge(drivers[['driver_id', 'vehicle_type']], on='driver_id', how='left')
merge_left(left, right) ==
    IF left = <<>> THEN <<>>
    ELSE LET r == Head(left)
             hits == Filter(right, {i \in DOMAIN right : right[i].driver_id = r.driver_id})
             joined == IF hits = <<>>
                       THEN AddColumn(<<r>>, "vehicle_type", <<NA>>)
                       ELSE [j \in DOMAIN hits |->
                               AddColumn(<<r>>, "vehicle_type",
                                         <<hits[j].vehicle_type>>)[1]]
         IN joined \o merge_left(Tail(left), right)

\* rows without a matching driver let through the vehicle filter
keep_unmatched(ft, d, vehicle_types) ==
    LET merged == merge_left(ft.rows, d.rows)
    IN DataFrame(ft.columns \cup {"vehicle_type"},
           Filter(merged, {i \in DOMAIN merged :
               \/ merged[i].vehicle_type = NA
               \/ isin(merged[i].vehicle_type, vehicle_types)}))

\* the merge and the vehicle_type.isin(selected_vehicle_types) filter after it
filterByVehicleType(ft, d, vehicle_types) ==
    LET merged == merge_left(ft.rows, d.rows)
    IN DataFrame(ft.columns \cup {"vehicle_type"},
           Filter(merged, {i \in DOMAIN merged :
               isin(merged[i].vehicle_type, vehicle_types)}))

Column(df, col) == {df.rows[i][col] : i \in DOMAIN df.rows}

derivedDrivers(d, ft) ==
    DataFrame(d.columns,
        Filter(d.rows, {i \in DOMAIN d.rows :
            isin(d.rows[i].driver_id, Column(ft, "driver_id"))}))

derivedPayments(p, ft) ==
    DataFrame(p.columns,
        Filter(p.rows, {i \in DOMAIN p.rows :
            isin(p.rows[i].trip_id, Column(ft, "trip_id"))}))

\* --------------------------------------------------------------- sidebar
DateChoices == {Date(1, 1), Date(1, 5), Date(1, 6), Date(1, 31), Date(2, 1)}

dropna_unique(df, col) == Column(df, col) \ {NA}

Selection(p, d, v, dr) == [pickup |-> p, dropoff |-> d, vehicle_types |-> v, dates |-> dr]

\* the multiselect defaults and the date_input value
DefaultSelection(d, t) ==
    Selection(dropna_unique(t, "pickup_borough"), dropna_unique(t, "dropoff_borough"),
              Column(d, "vehicle_type"),
              <<dt_date(Min(Column(t, "trip_datetime"))),
                dt_date(Max(Column(t, "trip_datetime")))>>)

\* what the operator can set the four widgets to
WidgetChoices(d, t) ==
    LET dflt == DefaultSelection(d, t)
        days == {x \in DateChoices : dflt.dates[1] <= x /\ x <= dflt.dates[2]}
    IN {s \in [pickup : SUBSET dflt.pickup, dropoff : SUBSET dflt.dropoff,
               vehicle_types : SUBSET dflt.vehicle_types, dates : days \X days] :
            s.dates[1] <= s.dates[2]}

\* ------------------------------------------------------- metrics engine
Completed(df) ==
    Filter(df.rows, {i \in DOMAIN df.rows : df.rows[i].trip_status = "completed"})
Successful(df) ==
    Filter(df.rows, {i \in DOMAIN df.rows : df.rows[i].payment_status = "successful"})

\* Python's int / int: no value when the divisor is 0 (ZeroDivisionError)
CanDivide(n) == n # 0
Percent(part, whole) == <<part * 100, whole>>

\* sorted() / groupby key order of the text labels that occur in the data
LabelOrder == <<"Bronx", "Brooklyn", "Manhattan", "Queens", "SUV", "Sedan",
                "card", "cash">>
SortLabels(S) == Filter(LabelOrder, {i \in DOMAIN LabelOrder : LabelOrder[i] \in S})

Group(rws, col, key) == Filter(rws, {i \in DOMAIN rws : rws[i][col] = key})

RECURSIVE nlargest_from(_, _, _, _, _)
\* the n largest of the rows in left, one at a time; keep is "first" or "last"
nlargest_from(n, rws, col, left, keep) ==
    IF n = 0 \/ left = {} THEN <<>>
    ELSE LET best == CHOOSE i \in left : \A j \in left :
                        \/ rws[j][col][1] < rws[i][col][1]
                        \/ /\ rws[j][col][1] = rws[i][col][1]
                           /\ IF keep = "first" THEN i <= j ELSE i >= j
         IN <<rws[best]>> \o nlargest_from(n - 1, rws, col, left \ {best}, keep)

\* keep='last': among equal values the later row
nlargest_keep_last(n, rws, col) ==
    nlargest_from(n, rws, col, DOMAIN rws, "last")

\* DataFrame.nlargest(n, col), keep='first': among equal values the earlier row
nlargest(n, rws, col) ==
    nlargest_from(n, rws, col, DOMAIN rws, "first")

\* lines 175-180, one row per pickup borough in key order
boroughCompletion(ft) ==
    LET keys == SortLabels(Column(ft, "pickup_borough") \ {NA})
    IN [k \in DOMAIN keys |->
          LET g == Group(ft.rows, "pickup_borough", keys[k])
              done == Len(Filter(g, {i \in DOMAIN g : g[i].trip_status = "completed"}))
          IN [pickup_borough |-> keys[k], total_trips |-> Len(g),
              completed_trips |-> done, completion_rate |-> Percent(done, Len(g))]]

\* lines 284-298: completed rows grouped by driver_id (keys ascending), then the
\* left merge with the driver details
driverMetrics(ftwd, d) ==
    LET done == Completed(ftwd)
        keys == SortAsc({done[i].driver_id : i \in DOMAIN done})
        grouped == [k \in DOMAIN keys |->
                      LET g == Group(done, "driver_id", keys[k])
                      IN [driver_id |-> keys[k], trips_completed |-> Len(g),
                          total_earnings |-> F(SumSkipNaN(g, "fare_amount"))]]
    IN merge_left(grouped, d.rows)

\* lines 345-346: per-method sum of amount_charged, largest first
paymentRevenue(fp) ==
    LET keys == SortLabels(Column(fp, "payment_method") \ {NA})
        grouped == [k \in DOMAIN keys |->
                      [payment_method |-> keys[k],
                       amount_charged |->
                           F(SumSkipNaN(Group(fp.rows, "payment_method", keys[k]),
                                        "amount_charged"))]]
    IN nlargest(Len(grouped), grouped, "amount_charged")

\* line 388: filtered_trips gets the column month_year
with_month_year(ft) ==
    DataFrame(ft.columns \cup {"month_year"},
              AddColumn(ft.rows, "month_year",
                        [i \in DOMAIN ft.rows |-> dt_month_year(ft.rows[i].trip_datetime)]))

\* line 389
monthlyRevenue(ft) ==
    LET done == Completed(ft)
        keys == SortAsc({done[i].month_year[2] : i \in DOMAIN done})
    IN [k \in DOMAIN keys |->
          [month_year |-> <<2024, keys[k]>>,
           fare_amount |->
               F(SumSkipNaN(Group(done, "month_year", <<2024, keys[k]>>), "fare_amount"))]]

\* line 404
vehicleRevenue(ftwd) ==
    LET done == Completed(ftwd)
        keys == SortLabels({done[i].vehicle_type : i \in DOMAIN done} \ {NA})
    IN [k \in DOMAIN keys |->
          [vehicle_type |-> keys[k],
           fare_amount |-> F(SumSkipNaN(Group(done, "vehicle_type", keys[k]),
                                        "fare_amount"))]]

\* line 422
hourlyDemand(ft) ==
    LET keys == SortAsc(Column(ft, "hour"))
    IN [k \in DOMAIN keys |->
          [hour |-> keys[k], trip_count |-> Len(Group(ft.rows, "hour", keys[k]))]]

\* lines 437-438: groupby('day_of_week').size().reindex(day_order); a label the
\* grouped index lacks gets NaN
dailyDemand(ft) ==
    [k \in DOMAIN day_order |->
        [day_of_week |-> day_order[k],
         trip_count |-> IF day_order[k] \in Column(ft, "day_of_week")
                        THEN F(Len(Group(ft.rows, "day_of_week", day_order[k])))
                        ELSE NaN]]

\* ------------------------------------------------------------ script run
FreshRun ==
    /\ st_error' = ""
    /\ exception' = ""
    /\ pc' = "load"
    /\ drivers' = Unset /\ trips' = Unset /\ payments' = Unset
    /\ selected_pickup' = {} /\ selected_dropoff' = {}
    /\ selected_vehicle_types' = {} /\ date_range' = <<0, 0>>
    /\ filtered_trips' = Unset /\ filtered_trips_with_drivers' = Unset
    /\ filtered_drivers' = Unset /\ filtered_payments' = Unset
    /\ total_trips' = NoValue /\ completion_rate' = NoValue /\ avg_fare' = NoValue
    /\ total_revenue' = NoValue /\ active_drivers' = NoValue
    /\ borough_completion' = <<>> /\ driver_metrics' = <<>> /\ top_earners' = <<>>
    /\ payment_revenue' = <<>> /\ monthly_revenue' = <<>> /\ vehicle_revenue' = <<>>
    /\ hourly_demand' = <<>> /\ daily_demand' = <<>>
    /\ completion_rate_val' = NoValue /\ payment_success_rate' = NoValue

\* line 75 on a cache miss: load_data() runs and its result is stored
LoadData ==
    /\ pc = "load" /\ cache = <<>>
    /\ LET r == load_data(files)
       IN /\ cache' = <<r>>
          /\ drivers' = r.value[1] /\ trips' = r.value[2] /\ payments' = r.value[3]
          /\ st_error' = r.error
    /\ pc' = "check"
    /\ UNCHANGED <<files, widgets, exception, selection, filtered, kpis, tabs, insights>>

\* line 75 on a cache hit: a copy of the stored result, its st.error replayed
LoadDataCached ==
    /\ pc = "load" /\ cache # <<>>
    /\ drivers' = cache[1].value[1] /\ trips' = cache[1].value[2]
    /\ payments' = cache[1].value[3]
    /\ st_error' = cache[1].error
    /\ pc' = "check"
    /\ UNCHANGED <<session, exception, selection, filtered, kpis, tabs, insights>>

\* lines 77-78
StopIfNone ==
    /\ pc = "check"
    /\ pc' = IF IsNone(drivers) \/ IsNone(trips) \/ IsNone(payments)
             THEN "stopped" ELSE "sidebar"
    /\ UNCHANGED <<session, st_error, exception, loaded, selection, filtered, kpis,
                   tabs, insights>>

\* lines 83-106: the widgets return their defaults or what the operator set
Sidebar ==
    /\ pc = "sidebar"
    /\ LET s == IF widgets = <<>> THEN DefaultSelection(drivers, trips) ELSE widgets[1]
       IN /\ selected_pickup' = s.pickup
          /\ selected_dropoff' = s.dropoff
          /\ selected_vehicle_types' = s.vehicle_types
          /\ date_range' = s.dates
    /\ pc' = "filter_trips"
    /\ UNCHANGED <<session, st_error, exception, loaded, filtered, kpis, tabs, insights>>

\* lines 109-114
FilterTrips ==
    /\ pc = "filter_trips"
    /\ filtered_trips' = filterTrips(trips, selected_pickup, selected_dropoff, date_range)
    /\ pc' = "filter_vehicle"
    /\ UNCHANGED <<session, st_error, exception, loaded, selection,
                   filtered_trips_with_drivers, filtered_drivers, filtered_payments,
                   kpis, tabs, insights>>

\* lines 117-126
FilterByVehicleType ==
    /\ pc = "filter_vehicle"
    /\ filtered_trips_with_drivers' =
           filterByVehicleType(filtered_trips, drivers, selected_vehicle_types)
    /\ pc' = "derive"
    /\ UNCHANGED <<session, st_error, exception, loaded, selection, filtered_trips,
                   filtered_drivers, filtered_payments, kpis, tabs, insights>>

\* the drivers and payments scoped by the vehicle-type-filtered trips instead
DeriveFromVehicleFiltered ==
    /\ pc = "derive"
    /\ filtered_drivers' = derivedDrivers(drivers, filtered_trips_with_drivers)
    /\ filtered_payments' = derivedPayments(payments, filtered_trips_with_drivers)
    /\ pc' = "total_trips"
    /\ UNCHANGED <<session, st_error, exception, loaded, selection, filtered_trips,
                   filtered_trips_with_drivers, kpis, tabs, insights>>

\* lines 128-129
DeriveDriversPayments ==
    /\ pc = "derive"
    /\ filtered_drivers' = derivedDrivers(drivers, filtered_trips)
    /\ filtered_payments' = derivedPayments(payments, filtered_trips)
    /\ pc' = "total_trips"
    /\ UNCHANGED <<session, st_error, exception, loaded, selection, filtered_trips,
                   filtered_trips_with_drivers, kpis, tabs, insights>>

\* line 137
TotalTrips ==
    /\ pc = "total_trips"
    /\ total_trips' = <<Len(filtered_trips.rows)>>
    /\ pc' = "completion_rate"
    /\ UNCHANGED <<session, st_error, exception, loaded, selection, filtered,
                   completion_rate, avg_fare, total_revenue, active_drivers, tabs,
                   insights>>

\* line 143
CompletionRate ==
    /\ pc = "completion_rate"
    /\ IF CanDivide(Len(filtered_trips.rows))
       THEN /\ completion_rate' =
                   Percent(Len(Completed(filtered_trips)), Len(filtered_trips.rows))
            /\ pc' = "avg_fare"
            /\ UNCHANGED exception
       ELSE /\ exception' = "ZeroDivisionError"
            /\ pc' = "raised"
            /\ UNCHANGED completion_rate
    /\ UNCHANGED <<session, st_error, loaded, selection, filtered, total_trips,
                   avg_fare, total_revenue, active_drivers, tabs, insights>>

\* line 149
AvgFare ==
    /\ pc = "avg_fare"
    /\ avg_fare' = MeanSkipNaN(Completed(filtered_trips), "fare_amount")
    /\ pc' = "total_revenue"
    /\ UNCHANGED <<session, st_error, exception, loaded, selection, filtered,
                   total_trips, completion_rate, total_revenue, active_drivers, tabs,
                   insights>>

\* line 155
TotalRevenue ==
    /\ pc = "total_revenue"
    /\ total_revenue' = F(SumSkipNaN(Successful(filtered_payments), "amount_charged"))
    /\ pc' = "active_drivers"
    /\ UNCHANGED <<session, st_error, exception, loaded, selection, filtered,
                   total_trips, completion_rate, avg_fare, active_drivers, tabs,
                   insights>>

\* line 161
ActiveDrivers ==
    /\ pc = "active_drivers"
    /\ active_drivers' =
           <<Cardinality({i \in DOMAIN filtered_drivers.rows :
                            filtered_drivers.rows[i].status = "Active"})>>
    /\ pc' = "borough_completion"
    /\ UNCHANGED <<session, st_error, exception, loaded, selection, filtered,
                   total_trips, completion_rate, avg_fare, total_revenue, tabs,
                   insights>>

\* lines 175-180
BoroughCompletion ==
    /\ pc = "borough_completion"
    /\ borough_completion' = boroughCompletion(filtered_trips)
    /\ pc' = "driver_metrics"
    /\ UNCHANGED <<session, st_error, exception, loaded, selection, filtered, kpis,
                   driver_metrics, top_earners, payment_revenue, monthly_revenue,
                   vehicle_revenue, hourly_demand, daily_demand, insights>>

\* lines 284-298
DriverMetrics ==
    /\ pc = "driver_metrics"
    /\ driver_metrics' = driverMetrics(filtered_trips_with_drivers, drivers)
    /\ pc' = "top_earners"
    /\ UNCHANGED <<session, st_error, exception, loaded, selection, filtered, kpis,
                   borough_completion, top_earners, payment_revenue, monthly_revenue,
                   vehicle_revenue, hourly_demand, daily_demand, insights>>

\* line 308
TopEarners ==
    /\ pc = "top_earners"
    /\ top_earners' = nlargest(TopN, driver_metrics, "total_earnings")
    /\ pc' = "payment_revenue"
    /\ UNCHANGED <<session, st_error, exception, loaded, selection, filtered, kpis,
                   borough_completion, driver_metrics, payment_revenue, monthly_revenue,
                   vehicle_revenue, hourly_demand, daily_demand, insights>>

\* lines 345-346
PaymentRevenue ==
    /\ pc = "payment_revenue"
    /\ payment_revenue' = paymentRevenue(filtered_payments)
    /\ pc' = "monthly_revenue"
    /\ UNCHANGED <<session, st_error, exception, loaded, selection, filtered, kpis,
                   borough_completion, driver_metrics, top_earners, monthly_revenue,
                   vehicle_revenue, hourly_demand, daily_demand, insights>>

\* the assignment of line 388 reaching the cached trips frame as well
MonthlyRevenueThroughCache ==
    /\ pc = "monthly_revenue"
    /\ filtered_trips' = with_month_year(filtered_trips)
    /\ cache' = <<[cache[1] EXCEPT !.value[2] = with_month_year(cache[1].value[2])]>>
    /\ monthly_revenue' = monthlyRevenue(filtered_trips')
    /\ pc' = "vehicle_revenue"
    /\ UNCHANGED <<files, widgets, st_error, exception, loaded, selection,
                   filtered_trips_with_drivers, filtered_drivers, filtered_payments,
                   kpis, borough_completion, driver_metrics, top_earners,
                   payment_revenue, vehicle_revenue, hourly_demand, daily_demand,
                   insights>>

\* lines 388-389
MonthlyRevenue ==
    /\ pc = "monthly_revenue"
    /\ filtered_trips' = with_month_year(filtered_trips)
    /\ monthly_revenue' = monthlyRevenue(filtered_trips')
    /\ pc' = "vehicle_revenue"
    /\ UNCHANGED <<session, st_error, exception, loaded, selection,
                   filtered_trips_with_drivers, filtered_drivers, filtered_payments,
                   kpis, borough_completion, driver_metrics, top_earners,
                   payment_revenue, vehicle_revenue, hourly_demand, daily_demand,
                   insights>>

\* line 404
VehicleRevenue ==
    /\ pc = "vehicle_revenue"
    /\ vehicle_revenue' = vehicleRevenue(filtered_trips_with_drivers)
    /\ pc' = "hourly_demand"
    /\ UNCHANGED <<session, st_error, exception, loaded, selection, filtered, kpis,
                   borough_completion, driver_metrics, top_earners, payment_revenue,
                   monthly_revenue, hourly_demand, daily_demand, insights>>

\* line 422
HourlyDemand ==
    /\ pc = "hourly_demand"
    /\ hourly_demand' = hourlyDemand(filtered_trips)
    /\ pc' = "daily_demand"
    /\ UNCHANGED <<session, st_error, exception, loaded, selection, filtered, kpis,
                   borough_completion, driver_metrics, top_earners, payment_revenue,
                   monthly_revenue, vehicle_revenue, daily_demand, insights>>

\* lines 437-438
DailyDemand ==
    /\ pc = "daily_demand"
    /\ daily_demand' = dailyDemand(filtered_trips)
    /\ pc' = "completion_rate_val"
    /\ UNCHANGED <<session, st_error, exception, loaded, selection, filtered, kpis,
                   borough_completion, driver_metrics, top_earners, payment_revenue,
                   monthly_revenue, vehicle_revenue, hourly_demand, insights>>

\* line 488
CompletionRateVal ==
    /\ pc = "completion_rate_val"
    /\ IF CanDivide(Len(filtered_trips.rows))
       THEN /\ completion_rate_val' =
                   Percent(Len(Completed(filtered_trips)), Len(filtered_trips.rows))
            /\ pc' = "payment_success_rate"
            /\ UNCHANGED exception
       ELSE /\ exception' = "ZeroDivisionError"
            /\ pc' = "raised"
            /\ UNCHANGED completion_rate_val
    /\ UNCHANGED <<session, st_error, loaded, selection, filtered, kpis, tabs,
                   payment_success_rate>>

\* line 490; the run then goes on to its last statement
PaymentSuccessRate ==
    /\ pc = "payment_success_rate"
    /\ IF CanDivide(Len(filtered_payments.rows))
       THEN /\ payment_success_rate' =
                   Percent(Len(Successful(filtered_payments)), Len(filtered_payments.rows))
            /\ pc' = "done"
            /\ UNCHANGED exception
       ELSE /\ exception' = "ZeroDivisionError"
            /\ pc' = "raised"
            /\ UNCHANGED payment_success_rate
    /\ UNCHANGED <<session, st_error, loaded, selection, filtered, kpis, tabs,
                   completion_rate_val>>

\* the operator changes one sidebar widget: the script is run again from the top
ChangeSelection ==
    /\ pc \in {"done", "raised"}
    /\ LET now == IF widgets = <<>> THEN DefaultSelection(drivers, trips)
                  ELSE widgets[1]
       IN \E s \in WidgetChoices(drivers, trips) :
              /\ Cardinality({w \in DOMAIN s : s[w] # now[w]}) = 1
              /\ widgets' = <<s>>
    /\ FreshRun
    /\ UNCHANGED <<files, cache>>

\* the operator reloads the page after st.stop()
Rerun ==
    /\ pc = "stopped"
    /\ FreshRun
    /\ UNCHANGED session

Next ==
    \/ LoadData \/ LoadDataCached \/ StopIfNone \/ Sidebar
    \/ FilterTrips \/ FilterByVehicleType \/ DeriveDriversPayments
    \/ TotalTrips \/ CompletionRate \/ AvgFare \/ TotalRevenue \/ ActiveDrivers
    \/ BoroughCompletion \/ DriverMetrics \/ TopEarners \/ PaymentRevenue
    \/ MonthlyRevenue \/ VehicleRevenue \/ HourlyDemand \/ DailyDemand
    \/ CompletionRateVal \/ PaymentSuccessRate
    \/ ChangeSelection \/ Rerun

\* ---------------------------------------------------------- initial states
FirstRun ==
    /\ cache = <<>> /\ widgets = <<>>
    /\ st_error = "" /\ exception = "" /\ pc = "load"
    /\ drivers = Unset /\ trips = Unset /\ payments = Unset
    /\ selected_pickup = {} /\ selected_dropoff = {}
    /\ selected_vehicle_types = {} /\ date_range = <<0, 0>>
    /\ filtered_trips = Unset /\ filtered_trips_with_drivers = Unset
    /\ filtered_drivers = Unset /\ filtered_payments = Unset
    /\ total_trips = NoValue /\ completion_rate = NoValue /\ avg_fare = NoValue
    /\ total_revenue = NoValue /\ active_drivers = NoValue
    /\ borough_completion = <<>> /\ driver_metrics = <<>> /\ top_earners = <<>>
    /\ payment_revenue = <<>> /\ monthly_revenue = <<>> /\ vehicle_revenue = <<>>
    /\ hourly_demand = <<>> /\ daily_demand = <<>>
    /\ completion_rate_val = NoValue /\ payment_success_rate = NoValue

\* trips.csv: between one and MaxTrips rows of the pool, in the pool's order
TripTables ==
    {Filter(TripPool, K) : K \in {S \in SUBSET DOMAIN TripPool :
                                      Cardinality(S) \in 1..MaxTrips}}

BadTimestamp == <<13, 1, 0>>
Corrupt(rws, col) == [rws EXCEPT ![Len(rws)][col] = BadTimestamp]

\* the data directory: complete, a file missing, or a timestamp that does not parse
DataDirs(t) ==
    { [drivers |-> File(DriversCsv), trips |-> File(t), payments |-> File(PaymentsCsv)],
      [drivers |-> Missing, trips |-> File(t), payments |-> File(PaymentsCsv)],
      [drivers |-> File(DriversCsv), trips |-> Missing, payments |-> File(PaymentsCsv)],
      [drivers |-> File(DriversCsv), trips |-> File(t), payments |-> Missing],
      [drivers |-> File(DriversCsv), trips |-> File(Corrupt(t, "trip_datetime")),
       payments |-> File(PaymentsCsv)],
      [drivers |-> File(DriversCsv), trips |-> File(t),
       payments |-> File(Corrupt(PaymentsCsv, "payment_timestamp"))] }

Init ==
    /\ \E t \in TripTables : files \in DataDirs(t)
    /\ FirstRun

Spec == Init /\ [][Next]_vars

\* ------------------------------------------- the filter as a pure function
\* any selection value over the labels of the pool, start <= end
AnySelection ==
    {s \in [pickup : SUBSET {"Manhattan", "Bronx"},
            dropoff : SUBSET {"Brooklyn", "Queens"},
            vehicle_types : {{"Sedan", "SUV"}},
            dates : DateChoices \X DateChoices] : s.dates[1] <= s.dates[2]}

InitFilter ==
    /\ \E t \in TripTables :
          files = [drivers |-> File(DriversCsv), trips |-> File(t),
                   payments |-> File(PaymentsCsv)]
    /\ cache = <<load_data(files)>>
    /\ drivers = cache[1].value[1] /\ trips = cache[1].value[2]
    /\ payments = cache[1].value[3]
    /\ \E s \in AnySelection :
          /\ widgets = <<s>>
          /\ selected_pickup = s.pickup /\ selected_dropoff = s.dropoff
          /\ selected_vehicle_types = s.vehicle_types /\ date_range = s.dates
    /\ st_error = "" /\ exception = "" /\ pc = "filter_trips"
    /\ filtered_trips = Unset /\ filtered_trips_with_drivers = Unset
    /\ filtered_drivers = Unset /\ filtered_payments = Unset
    /\ total_trips = NoValue /\ completion_rate = NoValue /\ avg_fare = NoValue
    /\ total_revenue = NoValue /\ active_drivers = NoValue
    /\ borough_completion = <<>> /\ driver_metrics = <<>> /\ top_earners = <<>>
    /\ payment_revenue = <<>> /\ monthly_revenue = <<>> /\ vehicle_revenue = <<>>
    /\ hourly_demand = <<>> /\ daily_demand = <<>>
    /\ completion_rate_val = NoValue /\ payment_success_rate = NoValue

NextFilter ==
    \/ FilterTrips \/ FilterByVehicleType \/ DeriveDriversPayments
    \/ TotalTrips \/ CompletionRate \/ AvgFare

SpecFilter == InitFilter /\ [][NextFilter]_vars

\* ------------------------------------------------ more drivers than TopN
TopDrivers ==
    [i \in 1..(TopN + 2) |->
        [driver_id |-> i, vehicle_type |-> "Sedan", status |-> "Active"]]

\* one completed trip per driver, the fares of the last FreeFares drivers given
TopTrips(fares) ==
    [i \in 1..(TopN + 2) |->
        [trip_id |-> i, driver_id |-> i, pickup_borough |-> "Manhattan",
         dropoff_borough |-> "Brooklyn", trip_datetime |-> <<1, 5, 8>>,
         trip_status |-> "completed",
         fare_amount |-> IF i > TopN + 2 - FreeFares
                         THEN F(fares[i - (TopN + 2 - FreeFares)]) ELSE F(20)]]

Reverse(rws) == [i \in DOMAIN rws |-> rws[Len(rws) + 1 - i]]
\* the odd rows, then the even rows
Shuffle(rws) ==
    Filter(rws, {i \in DOMAIN rws : i % 2 = 1}) \o Filter(rws, {i \in DOMAIN rws : i % 2 = 0})

TopTables ==
    UNION {{TopTrips(f), Reverse(TopTrips(f)), Shuffle(TopTrips(f))} :
              f \in [1..FreeFares -> {20, 30}]}

InitTop ==
    /\ \E t \in TopTables :
          files \in {[d EXCEPT !.drivers = IF d.drivers.exists THEN File(TopDrivers)
                                           ELSE Missing] : d \in DataDirs(t)}
    /\ FirstRun

SpecTop == InitTop /\ [][Next]_vars

\* ------------------------------------------------------------------ claims
Ids(rws) == [i \in DOMAIN rws |-> rws[i].trip_id]
Produced(df) == df.kind = "frame"
\* the calendar date written in row i of trips.csv
CsvDate(i) == Date(files.trips.rows[i].trip_datetime[1], files.trips.rows[i].trip_datetime[2])

ScenarioLoaded == Ids(trips.rows) = <<1, 2, 3>>
ScenarioSelected ==
    /\ selected_pickup = {"Manhattan"}
    /\ selected_dropoff = {"Brooklyn", "Queens"}
    /\ date_range = <<Date(1, 1), Date(1, 31)>>

\* C1: the filtered trips are exactly the loaded trips whose pickup borough is
\* selected, whose dropoff borough is selected and whose date lies in
\* [start, end], both ends included, in their order; a trip with an absent
\* borough is never kept.  On the three-trip scenario (pickup Manhattan, all
\* dropoffs, 2024-01-01..2024-01-31) the first two trips are kept, the
\* completion rate is 50 and the average completed fare is 20.
C1_FilterContract ==
    Produced(filtered_trips) =>
        /\ \A i \in DOMAIN trips.rows :
              (\E j \in DOMAIN filtered_trips.rows : filtered_trips.rows[j] = trips.rows[i])
              <=> /\ trips.rows[i].pickup_borough \in selected_pickup
                  /\ trips.rows[i].dropoff_borough \in selected_dropoff
                  /\ date_range[1] <= CsvDate(i)
                  /\ CsvDate(i) <= date_range[2]
        /\ \A j \in DOMAIN filtered_trips.rows :
              /\ \E i \in DOMAIN trips.rows : filtered_trips.rows[j] = trips.rows[i]
              /\ filtered_trips.rows[j].pickup_borough # NA
              /\ filtered_trips.rows[j].dropoff_borough # NA
              /\ \A k \in DOMAIN filtered_trips.rows :
                    j < k => filtered_trips.rows[j].trip_id < filtered_trips.rows[k].trip_id
        /\ (ScenarioLoaded /\ ScenarioSelected) =>
              /\ Ids(filtered_trips.rows) = <<1, 2>>
              /\ completion_rate # NoValue =>
                    completion_rate[1] = 50 * completion_rate[2] /\ completion_rate[2] > 0
              /\ avg_fare # NoValue => avg_fare[1] = 20 * avg_fare[2] /\ avg_fare[2] > 0

C1_Witness ==
    /\ ScenarioLoaded /\ ScenarioSelected
    /\ pc = "total_revenue"
    /\ Ids(filtered_trips.rows) = <<1, 2>>
    /\ avg_fare = F(20)

\* C2: when the filtered trip set is empty the run does not raise: the derived
\* drivers and payments are empty, total trips is 0 and the completion rate is
\* the undefined sentinel.
C2_EmptySelectionIsSafe ==
    (Produced(filtered_trips) /\ filtered_trips.rows = <<>>) =>
        /\ exception = ""
        /\ Produced(filtered_drivers) => filtered_drivers.rows = <<>>
        /\ Produced(filtered_payments) => filtered_payments.rows = <<>>
        /\ total_trips # NoValue => total_trips = <<0>>
        /\ pc \notin {"filter_vehicle", "derive", "total_trips", "completion_rate"}
              => completion_rate = NaN

\* C3: when no payment references a filtered trip the payment success rate is
\* the undefined sentinel and the run completes without raising (stated here
\* for a non-empty filtered trip set).
C3_NoPaymentsIsSafe ==
    (Produced(filtered_payments) /\ filtered_payments.rows = <<>>
        /\ filtered_trips.rows # <<>>) =>
        /\ exception = ""
        /\ pc = "done" => payment_success_rate = NaN

\* C4: the trips-by-day-of-week table has the 7 rows Monday..Sunday in that
\* order and each row's count is the number of filtered trips on that day, 0
\* for a day without filtered trips.
C4_SevenDayCounts ==
    pc \in {"completion_rate_val", "payment_success_rate", "done"} =>
        /\ Len(daily_demand) = 7
        /\ \A k \in 1..7 :
              /\ daily_demand[k].day_of_week = day_order[k]
              /\ daily_demand[k].trip_count =
                    F(Cardinality({i \in DOMAIN filtered_trips.rows :
                          dt_date(filtered_trips.rows[i].trip_datetime) % 7 = k - 1}))

\* C5: the per-method revenues of the revenue-by-payment-method table add up
\* to the total revenue KPI of the same filtered payments.
C5_RevenueConservation ==
    pc \in {"monthly_revenue", "vehicle_revenue", "hourly_demand", "daily_demand",
            "completion_rate_val", "payment_success_rate", "done"} =>
        F(SumSkipNaN(payment_revenue, "amount_charged")) = total_revenue

\* the completed vehicle-filtered trips of driver d, and what they earned
CompletedOf(d) ==
    {i \in DOMAIN filtered_trips_with_drivers.rows :
        /\ filtered_trips_with_drivers.rows[i].driver_id = d
        /\ filtered_trips_with_drivers.rows[i].trip_status = "completed"}
Earned(d) ==
    SumInts([i \in CompletedOf(d) |->
                 filtered_trips_with_drivers.rows[i].fare_amount[1]], CompletedOf(d))
Earners == {d \in Column(filtered_trips_with_drivers, "driver_id") : CompletedOf(d) # {}}
RanksBefore(a, b) == Earned(a) > Earned(b) \/ (Earned(a) = Earned(b) /\ a < b)

Resolves(r) ==
    \E i \in DOMAIN drivers.rows :
        /\ drivers.rows[i].driver_id = r.driver_id
        /\ drivers.rows[i].vehicle_type \in selected_vehicle_types
Unresolved(r) == \A i \in DOMAIN drivers.rows : drivers.rows[i].driver_id # r.driver_id

\* C7: a filtered trip whose driver matches no driver record stays in the
\* filtered trips and in total trips, and is never in the vehicle-type-filtered
\* set; that set holds exactly the filtered trips whose driver resolves to a
\* driver with a selected vehicle type, each once.
C7_VehicleJoinDrop ==
    Produced(filtered_trips_with_drivers) =>
        /\ \A j \in DOMAIN filtered_trips.rows :
              /\ (filtered_trips.rows[j].trip_id
                      \in Range(Ids(filtered_trips_with_drivers.rows)))
                 <=> Resolves(filtered_trips.rows[j])
              /\ Unresolved(filtered_trips.rows[j]) =>
                    filtered_trips.rows[j].trip_id
                        \notin Range(Ids(filtered_trips_with_drivers.rows))
        /\ \A j \in DOMAIN filtered_trips_with_drivers.rows :
              /\ filtered_trips_with_drivers.rows[j].trip_id
                     \in Range(Ids(filtered_trips.rows))
              /\ \A k \in DOMAIN filtered_trips_with_drivers.rows :
                    j # k => filtered_trips_with_drivers.rows[j].trip_id
                                 # filtered_trips_with_drivers.rows[k].trip_id
        /\ total_trips # NoValue =>
              total_trips = <<Cardinality({i \in DOMAIN trips.rows :
                  /\ trips.rows[i].pickup_borough \in selected_pickup
                  /\ trips.rows[i].dropoff_borough \in selected_dropoff
                  /\ date_range[1] <= CsvDate(i) /\ CsvDate(i) <= date_range[2]})>>

C7_Witness ==
    /\ pc = "completion_rate"
    /\ selected_vehicle_types # {}
    /\ filtered_trips_with_drivers.rows # <<>>
    /\ \E j \in DOMAIN filtered_trips.rows :
          /\ Unresolved(filtered_trips.rows[j])
          /\ filtered_trips.rows[j].trip_id \notin Range(Ids(filtered_trips_with_drivers.rows))
    /\ total_trips = <<Len(filtered_trips_with_drivers.rows) + 1>>

\* what the data directory makes of a load: a file is missing or a timestamp
\* does not parse
LoadFails ==
    \/ ~files.drivers.exists \/ ~files.trips.exists \/ ~files.payments.exists
    \/ \E i \in DOMAIN files.trips.rows : files.trips.rows[i].trip_datetime = BadTimestamp
    \/ \E i \in DOMAIN files.payments.rows :
          files.payments.rows[i].payment_timestamp = BadTimestamp

NothingComputed ==
    /\ filtered = <<Unset, Unset, Unset, Unset>>
    /\ selection = <<{}, {}, {}, <<0, 0>>>>
    /\ kpis = <<NoValue, NoValue, NoValue, NoValue, NoValue>>
    /\ tabs = <<<<>>, <<>>, <<>>, <<>>, <<>>, <<>>, <<>>, <<>>>>
    /\ insights = <<NoValue, NoValue>>

\* C8: loading is all-or-nothing and a failed load halts the run: the loader
\* hands back either three record sets or none at all, a failed load reports
\* an error, and after it no sidebar, filter or metrics statement runs.
C8_LoadAllOrNothing ==
    pc # "load" =>
        /\ (IsNone(drivers) \/ IsNone(trips) \/ IsNone(payments)) =>
              (IsNone(drivers) /\ IsNone(trips) /\ IsNone(payments))
        /\ LoadFails =>
              /\ IsNone(drivers) /\ IsNone(trips) /\ IsNone(payments)
              /\ st_error # ""
              /\ pc \in {"check", "stopped"}
              /\ exception = ""
              /\ NothingComputed
        /\ ~LoadFails =>
              /\ Produced(drivers) /\ Produced(trips) /\ Produced(payments)
              /\ st_error = ""

\* a run stopped on a payments.csv timestamp that does not parse
C8_Witness ==
    /\ pc = "stopped"
    /\ files.drivers.exists /\ files.trips.exists /\ files.payments.exists
    /\ \E i \in DOMAIN files.payments.rows :
          files.payments.rows[i].payment_timestamp = BadTimestamp
    /\ IsNone(drivers) /\ IsNone(trips) /\ IsNone(payments)
    /\ st_error = "Error loading data"
    /\ NothingComputed

Chosen == IF widgets = <<>> THEN DefaultSelection(cache[1].value[1], cache[1].value[2])
          ELSE widgets[1]
FilteredOf(c, s) == filterTrips(c[2], s.pickup, s.dropoff, s.dates)

\* C9: across runs the loaded record sets never change, every run works on
\* them, and once a run has derived its four sets they are the value of a
\* function of the loaded record sets and of the selection the operator last
\* made (the filtered trips with or without the month_year column), whatever
\* the earlier runs were.
C9_RunsArePure ==
    [][ /\ cache # <<>> => cache' = cache
        /\ files' = files
        /\ Produced(trips') => <<drivers', trips', payments'>> = cache'[1].value
        /\ Produced(filtered_payments') =>
              /\ filtered_trips' \in {FilteredOf(cache'[1].value, Chosen'),
                                      with_month_year(FilteredOf(cache'[1].value, Chosen'))}
              /\ filtered_trips_with_drivers' =
                     filterByVehicleType(FilteredOf(cache'[1].value, Chosen'),
                                         cache'[1].value[1], Chosen'.vehicle_types)
              /\ filtered_drivers' =
                     derivedDrivers(cache'[1].value[1], FilteredOf(cache'[1].value, Chosen'))
              /\ filtered_payments' =
                     derivedPayments(cache'[1].value[3], FilteredOf(cache'[1].value, Chosen'))
      ]_vars

\* a finished run under the default selection, made again after other selections
C9_Witness ==
    /\ pc = "done"
    /\ widgets # <<>>
    /\ widgets[1] = DefaultSelection(drivers, trips)
    /\ Len(filtered_trips.rows) > 1
    /\ trips = cache[1].value[2]
    /\ "month_year" \notin trips.columns

\* C10: from the moment the filtered trips are produced until the end of the
\* run no step changes them, neither their rows nor their columns.
C10_FilterOutputFrozen ==
    [][(Produced(filtered_trips) /\ pc' # "load") => filtered_trips' = filtered_trips]_vars

\* the loaded trips that pass the borough and date predicates of the selection,
\* and the completed ones among them: no vehicle type is read
Kept ==
    {i \in DOMAIN trips.rows :
        /\ trips.rows[i].pickup_borough \in selected_pickup
        /\ trips.rows[i].dropoff_borough \in selected_dropoff
        /\ date_range[1] <= CsvDate(i) /\ CsvDate(i) <= date_range[2]}
KeptCompleted == {i \in Kept : trips.rows[i].trip_status = "completed"}
KeptFares == {i \in KeptCompleted : trips.rows[i].fare_amount # NaN}
PaidFor ==
    {k \in DOMAIN payments.rows :
        /\ payments.rows[k].payment_status = "successful"
        /\ \E i \in Kept : trips.rows[i].trip_id = payments.rows[k].trip_id}
ActiveOnKept ==
    {k \in DOMAIN drivers.rows :
        /\ drivers.rows[k].status = "Active"
        /\ \E i \in Kept : trips.rows[i].driver_id = drivers.rows[k].driver_id}

\* C11: the headline KPIs do not depend on the vehicle-type selection: total
\* trips, completion rate, average fare, total revenue and active drivers are
\* each the value of an expression over the loaded record sets, the borough
\* selections and the date range alone, so two selections that differ only in
\* their vehicle types (the empty set included) give the same five KPIs.
C11_KpisIgnoreVehicleTypes ==
    /\ total_trips # NoValue => total_trips = <<Cardinality(Kept)>>
    /\ completion_rate # NoValue =>
          completion_rate = <<Cardinality(KeptCompleted) * 100, Cardinality(Kept)>>
    /\ avg_fare # NoValue =>
          avg_fare = <<SumInts([i \in KeptFares |-> trips.rows[i].fare_amount[1]],
                               KeptFares),
                       Cardinality(KeptFares)>>
    /\ total_revenue # NoValue =>
          total_revenue = F(SumInts([k \in PaidFor |-> payments.rows[k].amount_charged[1]],
                                    PaidFor))
    /\ active_drivers # NoValue => active_drivers = <<Cardinality(ActiveOnKept)>>

\* a finished run with no vehicle type selected: the KPIs count the kept trips,
\* their payments and drivers, while the per-driver and vehicle tables are empty
C11_Witness ==
    /\ pc = "done"
    /\ selected_vehicle_types = {}
    /\ total_trips[1] > 1
    /\ completion_rate[1] > 0
    /\ avg_fare[2] > 0
    /\ total_revenue[1] > 0
    /\ active_drivers[1] > 0
    /\ \E i \in KeptCompleted : ~Unresolved(trips.rows[i])
    /\ driver_metrics = <<>> /\ vehicle_revenue = <<>>
    /\ filtered_trips_with_drivers.rows = <<>>

====
